---- MODULE Spec2Model ----
(***************************************************************************)
(* PranAIR command center: the SOS handler, the live patient location      *)
(* watch, the one-second drone movement interval and the telemetry poll of *)
(* App (src/src/CommandCenterNew.jsx), and the priority ranking of         *)
(* TacticalMapGrid (src/src/TacticalMapGrid.jsx).                          *)
(*                                                                         *)
(* Numbers.  A coordinate is an integer count of 1e-5 degree.  A distance  *)
(* is an integer count of 1/PerKm km (about 0.11 m): with R = 6371 km one  *)
(* degree of latitude is 111.19 km, so 1e-5 degree is 1/899.3 km, taken as *)
(* 1/900 km.  All positions lie within a few km of latitude 28.6139 N, the *)
(* code's own default, where the haversine reduces to                      *)
(*     d^2 = dLat^2 + cos(lat1) cos(lat2) dLon^2,  cos^2 = 0.77            *)
(* to well below one distance unit.  A priority score is a count of        *)
(* 1/PerKm, so that severity * 1.5 is severity * PriorityPerSeverity.      *)
(***************************************************************************)
EXTENDS Integers, Sequences, FiniteSets, TLC

VARIABLES
    activeRole,         \* App: activeRole
    geoSupported,       \* whether navigator.geolocation exists in this browser
    sosActive,          \* App: sosActive
    sosState,           \* App: sosState, IDLE / REQUESTING / ACTIVE
    patientLocation,    \* App: patientLocation, Null or [lat, lng]
    droneLocation,      \* App: droneLocation, [lat, lng]
    eta,                \* App: eta, NoEta (null) or a string
    telemetry,          \* App: telemetry, [battery, altitude, status]
    systemOnline,       \* App: systemOnline
    geoPending,         \* a getCurrentPosition request of handleSOS is outstanding
    sosTimeout,         \* the 1500 ms timeout of handleSOS: <<>> or <<initialEta>>
    watchLive,          \* a watchPosition registration of the live tracking effect exists
    intervals,          \* the live movement intervals: the patientLocation each one captured
    nearbyPatients,     \* TacticalMapGrid: nearbyPatients
    selectedPatientId,  \* TacticalMapGrid: selectedPatientId
    patientRankings,    \* TacticalMapGrid: the memoized patientRankings
    rankedPatients,     \* PriorityRankingPanel: the memoized rankedPatients
    locSource,          \* history: where patientLocation came from, NONE / GPS / FALLBACK
    arrivals,           \* history: changes of eta to ARRIVED since the patient last moved
    arrivalRuns,        \* history: runs of the arrival branch since the patient last moved
    served,             \* history: changes of eta to ARRIVED since App started
    legTicks,           \* history: movement steps since the patient last moved
    idleTicks,          \* history: one-second periods that passed with no live interval
    watchCount,         \* history: watchPosition callbacks delivered
    analysisResults,    \* App: analysisResults, Null or the transformedData of a triage
    isAnalyzing,        \* App: isAnalyzing
    uploadedImage,      \* App: uploadedImage, whether an image file is chosen
    isAnalyzingImage,   \* App: isAnalyzingImage
    props,              \* TacticalMapGrid mounted on its own: its props [realPatient, drone], or Null
    route,              \* the route optimizer: Null or its last call [vehicle, targets, result]
    triageCalls,        \* App: calls of handleTriage between their guard and their finally block
    clickedId,          \* history: the patient whose map was clicked last, NoId before a click
    geo,                \* the distance functions: Null or their last call [a, b, app, grid]
    classified,         \* the severity classifier: Null or its last call [caption, confidence, result]
    pva,                \* PatientVoiceAssistant: its state and its requests in flight
    va                  \* VoiceAssistant of the console: its state, recorder, timers and requests

vars == <<activeRole, geoSupported, sosActive, sosState, patientLocation,
          droneLocation, eta, telemetry, systemOnline, geoPending, sosTimeout,
          watchLive, intervals, nearbyPatients, selectedPatientId,
          patientRankings, rankedPatients, locSource, arrivals, arrivalRuns,
          served, legTicks,
          idleTicks, watchCount, analysisResults, isAnalyzing, uploadedImage,
          isAnalyzingImage, props, route, triageCalls, clickedId, geo,
          classified, pva, va>>

appVars == <<activeRole, geoSupported, sosActive, sosState, patientLocation,
             droneLocation, eta, telemetry, systemOnline, geoPending,
             sosTimeout, watchLive, intervals>>

gridVars == <<nearbyPatients, selectedPatientId, patientRankings, rankedPatients>>

triageVars == <<analysisResults, isAnalyzing, uploadedImage, isAnalyzingImage,
                triageCalls>>

moreVars == <<geo, classified, pva, va>>

auxVars == <<triageVars, props, route, moreVars, clickedId>>

(***************************************************************************)
(* Bounds of the model.                                                    *)
(***************************************************************************)
\* watchPosition callbacks delivered in one run
MaxWatch == 1
\* while the drone flies, the watch reports at every WatchEvery-th step of a leg
WatchEvery == 60
\* one-second periods counted while no interval is live
MaxIdle == 1
\* cases in a ranking input of SpecRank
MaxCases == 3
\* severity_score of a /dispatch response ranges over 0..MaxSeverityScore
MaxSeverityScore == 11
\* words in an injury_type text
MaxCaptionLen == 2
MaxTargets == 6
MaxRequests == 2
MaxMessages == 5

(***************************************************************************)
(* Program constants.                                                      *)
(***************************************************************************)
\* distance units per km
PerKm == 9000
\* the latitude whose cosine is 0.875: 28.95502 degrees
CosBandEdge == 2895502
\* 28.6139 and 77.2090 degrees
DelhiLat == 2861390
DelhiLng == 7720900
\* the drone starts 0.01 degree north and east of the patient
DroneStartOffset == 1000
\* distance < 0.05 km, as PerKm / ArrivalDivisor
ArrivalDivisor == 20
\* "Move 2% closer each second"
StepPct == 2
\* severity * 1.5, in distance units: 1.5 * PerKm
PriorityPerSeverity == 13500
\* severity of the primary SOS patient
PrimarySeverity == 9

Roles == {"OPERATOR", "DOCTOR", "PATIENT"}
Null == [null |-> TRUE]
NoEta == "null"
NoId == "null"

\* PatientVoiceAssistant after its mount: no message yet, the greeting
\* timeout pending; outcome is the response the last step handled
PatientAssistantMounted ==
    [messages |-> <<>>, isProcessing |-> FALSE, error |-> "null",
     greeting |-> TRUE, requests |-> 0, outcome |-> "none"]

\* VoiceAssistant of the console after its mount
VoiceAssistantMounted ==
    [status |-> "IDLE", isListening |-> FALSE, recorder |-> "null",
     assistantResponse |-> "", error |-> "null", timers |-> 0, requests |-> 0,
     outcome |-> "none"]
Pos(lat, lng) == [lat |-> lat, lng |-> lng]

\* the value of a number that is no number (NaN, or undefined once it is
\* used in arithmetic): a value no coordinate, distance or score takes
NaN == -999999999

\* a + b of JavaScript numbers
Plus(a, b) == IF a = NaN \/ b = NaN THEN NaN ELSE a + b

(***************************************************************************)
(* Geodistance and ETA.                                                    *)
(***************************************************************************)
RECURSIVE Newton(_, _)
\* Newton's iteration for the integer square root of n >= 1, from x >= sqrt(n)
\* (the next iterate y is bound once, so that it is computed once per step)
Newton(n, x) ==
    CHOOSE r \in { IF y >= x THEN x ELSE Newton(n, y) : y \in {(x + n \div x) \div 2} } : TRUE

\* Math.sqrt, rounded down to a whole distance unit
ISqrt(n) ==
    IF n = 0 THEN 0
    ELSE Newton(n, IF n < 10000 THEN 100
                   ELSE IF n < 1000000 THEN 1000
                   ELSE IF n < 100000000 THEN 10000 ELSE 46340)

\* Math.cos of a latitude between 27.8 and 30.1 degrees north, in percent
CosPct(lat) == IF lat < CosBandEdge THEN 88 ELSE 87

\* a faulty product: the cosine of the first latitude taken twice
CosProduct_FirstOnly(lat1, lat2) == (CosPct(lat1) * CosPct(lat1)) \div 100

\* Math.cos(lat1) * Math.cos(lat2), in percent
CosProduct(lat1, lat2) == (CosPct(lat1) * CosPct(lat2)) \div 100

\* CommandCenterNew.jsx calculateDistance (atan2 form of the haversine)
calculateDistance(lat1, lon1, lat2, lon2) ==
    LET dLat == lat2 - lat1
        dLon == lon2 - lon1
    IN ISqrt(100 * dLat * dLat + CosProduct(lat1, lat2) * dLon * dLon)

\* TacticalMapGrid.jsx calculateHaversineDistance (asin form of the haversine)
calculateHaversineDistance(lat1, lon1, lat2, lon2) ==
    LET dPhi == lat2 - lat1
        dLambda == lon2 - lon1
    IN IF NaN \in {lat1, lon1, lat2, lon2} THEN NaN
       ELSE ISqrt(100 * dPhi * dPhi + CosProduct(lat1, lat2) * dLambda * dLambda)

\* Math.ceil((distanceKm / speedKmH) * 60) with speedKmH = 60
EtaMinutes(distance) == (distance + PerKm - 1) \div PerKm

\* a faulty ETA: the last minute is reported as the arrival
calculateETA_ArrivedEarly(distance) ==
    IF (distance + PerKm - 1) \div PerKm <= 1 THEN "ARRIVED"
    ELSE ToString((distance + PerKm - 1) \div PerKm) \o " min"

calculateETA(distance) ==
    LET minutes == EtaMinutes(distance)
    IN IF minutes <= 1 THEN "< 1 min" ELSE ToString(minutes) \o " min"

\* distance < 0.05
Arrived(distance) == distance * ArrivalDivisor < PerKm

\* a faulty step: the difference taken as prev - target, so the drone recedes
Fraction_Away(d) ==
    IF d >= 0 THEN 0 - ((StepPct * d + 50) \div 100)
    ELSE (StepPct * (0 - d) + 50) \div 100

\* x * 0.02, rounded to the nearest representable coordinate
Fraction(d) ==
    IF d >= 0 THEN (StepPct * d + 50) \div 100
    ELSE 0 - ((StepPct * (0 - d) + 50) \div 100)

\* prev + (target - prev) * 0.02
Approach(prev, target) == prev + Fraction(target - prev)

\* the newPos of the movement step
StepToward(prev, target) ==
    Pos(Approach(prev.lat, target.lat), Approach(prev.lng, target.lng))

DistanceBetween(a, b) == calculateDistance(a.lat, a.lng, b.lat, b.lng)

(***************************************************************************)
(* Priority ranking (TacticalMapGrid.jsx).  A patient is                   *)
(* [id, latitude, longitude, severity]; a drone is the drone prop.         *)
(***************************************************************************)
\* a faulty score: the severity term left out, the nearest case scores highest
calculatePriorityScore_DistanceOnly(severity, distanceKm) == 0 - distanceKm

\* a faulty score: the severity weight 1.0 instead of 1.5
calculatePriorityScore_UnitWeight(severity, distanceKm) ==
    severity * PerKm - distanceKm

calculatePriorityScore(severity, distanceKm) ==
    IF severity = NaN \/ distanceKm = NaN THEN NaN
    ELSE severity * PriorityPerSeverity - distanceKm

\* the { ...patient, distance, priority } of the ranking's map step
Scored(patient, drone) ==
    LET distance == calculateHaversineDistance(drone.latitude, drone.longitude,
                                               patient.latitude, patient.longitude)
    IN [id |-> patient.id, distance |-> distance,
        priority |-> calculatePriorityScore(patient.severity, distance)]

\* a faulty comparator: a.priority - b.priority, the ascending order
ComesBefore_Ascending(a, b) == a.priority - b.priority < 0

\* the comparator (a, b) => b.priority - a.priority says a sorts before b
\* (a NaN difference counts as 0)
ComesBefore(a, b) ==
    /\ a.priority # NaN
    /\ b.priority # NaN
    /\ b.priority - a.priority < 0

\* where a stable sort puts x in an already sorted prefix: behind every
\* element that x does not come before
InsertAt(sorted, x) ==
    Cardinality({k \in 1..Len(sorted) : ~ComesBefore(x, sorted[k])})

InsertSorted(sorted, x) ==
    LET k == InsertAt(sorted, x)
    IN SubSeq(sorted, 1, k) \o <<x>> \o SubSeq(sorted, k + 1, Len(sorted))

RECURSIVE SortFrom(_, _, _)
SortFrom(seq, i, acc) ==
    IF i > Len(seq) THEN acc
    ELSE SortFrom(seq, i + 1, InsertSorted(acc, seq[i]))

\* Array.prototype.sort with the comparator above (stable)
SortByPriority(seq) == SortFrom(seq, 1, <<>>)

\* PriorityRankingPanel: rankedPatients
RankPanel(patients, drone) ==
    SortByPriority([i \in 1..Len(patients) |-> Scored(patients[i], drone)])

\* TacticalMapGrid: patientRankings, the map id -> rank
RankMap(patients, drone) ==
    LET ranked == RankPanel(patients, drone)
        ids == {patients[i].id : i \in 1..Len(patients)}
    IN [id \in ids |-> CHOOSE k \in 1..Len(ranked) :
                          /\ ranked[k].id = id
                          /\ \A j \in 1..Len(ranked) : ranked[j].id = id => j <= k]

RECURSIVE SelectFrom_LastMax(_, _, _, _, _)
\* a faulty auto-select: >= instead of >, the last of the highest wins
SelectFrom_LastMax(patients, drone, i, started, best) ==
    IF i > Len(patients) THEN best.id
    ELSE LET s == Scored(patients[i], drone)
         IN IF s.priority # NaN /\ (~started \/ s.priority >= best.priority)
            THEN SelectFrom_LastMax(patients, drone, i + 1, TRUE, s)
            ELSE SelectFrom_LastMax(patients, drone, i + 1, started, best)

RECURSIVE SelectFrom(_, _, _, _, _)
\* the forEach of the auto-select effect; started is FALSE while
\* highestPriority is still -Infinity
SelectFrom(patients, drone, i, started, best) ==
    IF i > Len(patients) THEN best.id
    ELSE LET s == Scored(patients[i], drone)
         IN IF s.priority # NaN /\ (~started \/ s.priority > best.priority)
            THEN SelectFrom(patients, drone, i + 1, TRUE, s)
            ELSE SelectFrom(patients, drone, i + 1, started, best)

\* TacticalMapGrid: the id the auto-select effect passes to setSelectedPatientId
AutoSelect(patients, drone) ==
    SelectFrom(patients, drone, 1, FALSE, [id |-> NoId, priority |-> 0])

\* the random (distance, angle) draws of generateNearbyPatients, as offsets in
\* coordinate units: 300 m north, 800 m east, 800 m south, 500 m west
NearbyOffsets ==
    << [dlat |-> 270, dlng |-> 0], [dlat |-> 0, dlng |-> 821],
       [dlat |-> -721, dlng |-> 0], [dlat |-> 0, dlng |-> -513] >>

\* the draws of one call, one offset per generated patient
NearbyDraws == { <<1, 2, 3>>, <<4, 3, 1>>, <<2, 2, 2>>, <<3, 1, 4>> }

severityLevels == <<7, 4, 2>>

generateNearbyPatients(primaryPatient, draw) ==
    [i \in 1..3 |->
        [id |-> "PATIENT_P" \o ToString(i + 1),
         latitude |-> Plus(primaryPatient.latitude, NearbyOffsets[draw[i]].dlat),
         longitude |-> IF primaryPatient.latitude = NaN THEN NaN
                       ELSE Plus(primaryPatient.longitude, NearbyOffsets[draw[i]].dlng),
         severity |-> severityLevels[i]]]

\* the realPatient prop App passes to TacticalMapGrid
RealPatientProp(ploc) ==
    [id |-> "PRIMARY_SOS", latitude |-> ploc.lat, longitude |-> ploc.lng,
     severity |-> PrimarySeverity]

\* x || fallback for a number x
OrElse(x, fallback) == IF x = 0 \/ x = NaN THEN fallback ELSE x

\* the drone prop App passes to TacticalMapGrid
DroneProp(dloc, tel) ==
    [id |-> "DRONE_01", latitude |-> dloc.lat, longitude |-> dloc.lng,
     battery |-> OrElse(tel.battery, 85), altitude |-> OrElse(tel.altitude, 120),
     status |-> tel.status]

\* a faulty case list: the primary patient left out
AllPatients_NearbyOnly(realPatient, nearby) == nearby

\* a faulty case list: no null guard, the fields read with realPatient?.
AllPatients_NoNullGuard(realPatient, nearby) ==
    << [id |-> "PATIENT_P1",
        latitude |-> IF realPatient = Null THEN NaN ELSE realPatient.latitude,
        longitude |-> IF realPatient = Null THEN NaN ELSE realPatient.longitude,
        severity |-> IF realPatient = Null THEN 9
                     ELSE OrElse(realPatient.severity, 9)] >> \o nearby

\* TacticalMapGrid: allPatients
AllPatients(realPatient, nearby) ==
    IF realPatient = Null THEN nearby
    ELSE << [id |-> "PATIENT_P1", latitude |-> realPatient.latitude,
             longitude |-> realPatient.longitude,
             severity |-> OrElse(realPatient.severity, 9)] >> \o nearby

(***************************************************************************)
(* Inputs.                                                                 *)
(***************************************************************************)
\* the positions the browser's geolocation reports
GpsFixes == { Pos(DelhiLat, DelhiLng), Pos(DelhiLat + 200, DelhiLng - 150) }

InitialTelemetry == [battery |-> 0, altitude |-> 0, status |-> "INITIALIZING"]

\* the response.data of GET /drone-status
StatusResponses == { [battery |-> 72, altitude |-> 95, status |-> "EN_ROUTE"] }

(***************************************************************************)
(* React effects and renders.                                              *)
(***************************************************************************)
\* a faulty movement effect: no cleanup returned, the old interval lives on
MovementCleanup_Leaks(ivs) == ivs

\* the cleanup of the movement effect: clearInterval(interval)
MovementCleanup(ivs) == <<>>

\* a faulty movement effect whose guard always returns early
MovementEffect_NeverStarts(ivs, active, ploc, dloc) == <<>>

\* a faulty movement effect: the early return left out, with the drone's own
\* position as the target while there is no patient
MovementEffect_NoGuard(ivs, active, ploc, dloc) ==
    <<IF ploc = Null THEN dloc ELSE ploc>>

\* the movement effect, run after a render in which one of its dependencies
\* [sosActive, patientLocation, droneLocation] changed: the cleanup of the
\* previous run, then a new interval unless the guard returns early
MovementEffect(ivs, active, ploc, dloc) ==
    MovementCleanup(ivs) \o
        (IF ~active \/ ploc = Null \/ dloc = Null THEN <<>> ELSE <<ploc>>)

\* the live tracking effect, run when sosActive changes
WatchEffect(active) == active /\ geoSupported

\* TacticalMapGrid is rendered by App
GridShown(role, active, ploc) == role = "OPERATOR" /\ active /\ ploc # Null

GridMounted == GridShown(activeRole, sosActive, patientLocation)

\* a faulty dependency array: [], the ranking computed once at the mount
RankDepsChanged_Never(patientsChanged, droneChanged) == FALSE

\* whether a useMemo over [patients, drone] recomputes
RankDepsChanged(patientsChanged, droneChanged) == patientsChanged \/ droneChanged

Memo(previous, changed, fresh) == IF changed THEN fresh ELSE previous

\* TacticalMapGrid after a render of App that leaves App with role, active,
\* ploc, dloc and tel.  Every render of App passes new realPatient and drone
\* objects, so allPatients, both rankings and the auto-select effect run again;
\* a change of the patient's coordinates (or the mount) regenerates the nearby
\* patients, which renders the grid once more.
GridRender(role, active, ploc, dloc, tel, appRendered) ==
    IF ~appRendered THEN UNCHANGED gridVars
    ELSE IF ~GridShown(role, active, ploc)
    THEN /\ nearbyPatients' = <<>>
         /\ selectedPatientId' = NoId
         /\ patientRankings' = <<>>
         /\ rankedPatients' = <<>>
    ELSE \E draw \in NearbyDraws :
         LET realPatient == RealPatientProp(ploc)
             drone == DroneProp(dloc, tel)
             mounting == ~GridMounted
             regenerate == mounting \/ ploc # patientLocation
             nearby1 == IF mounting THEN <<>> ELSE nearbyPatients
             nearby2 == IF regenerate
                        THEN generateNearbyPatients(realPatient, draw)
                        ELSE nearby1
             all1 == AllPatients(realPatient, nearby1)
             all2 == AllPatients(realPatient, nearby2)
             first == mounting \/ RankDepsChanged(TRUE, TRUE)
             again == regenerate /\ RankDepsChanged(TRUE, FALSE)
             ranked1 == Memo(rankedPatients, first, RankPanel(all1, drone))
             map1 == Memo(patientRankings, first, RankMap(all1, drone))
         IN /\ nearbyPatients' = nearby2
            /\ selectedPatientId' = AutoSelect(all2, drone)
            /\ rankedPatients' = Memo(ranked1, again, RankPanel(all2, drone))
            /\ patientRankings' = Memo(map1, again, RankMap(all2, drone))

(***************************************************************************)
(* The state after App is constructed and its effects have run.            *)
(***************************************************************************)
Init ==
    /\ activeRole = "OPERATOR"
    /\ geoSupported \in BOOLEAN
    /\ sosActive = FALSE
    /\ sosState = "IDLE"
    /\ patientLocation = Null
    /\ droneLocation = Pos(DelhiLat, DelhiLng)
    /\ eta = NoEta
    /\ telemetry = InitialTelemetry
    /\ systemOnline = TRUE
    /\ geoPending = FALSE
    /\ sosTimeout = <<>>
    /\ watchLive = FALSE
    /\ intervals = <<>>
    /\ nearbyPatients = <<>>
    /\ selectedPatientId = NoId
    /\ patientRankings = <<>>
    /\ rankedPatients = <<>>
    /\ locSource = "NONE"
    /\ arrivals = 0
    /\ arrivalRuns = 0
    /\ served = 0
    /\ legTicks = 0
    /\ idleTicks = 0
    /\ watchCount = 0
    /\ analysisResults = Null
    /\ isAnalyzing = FALSE
    /\ uploadedImage = FALSE
    /\ isAnalyzingImage = FALSE
    /\ props = Null
    /\ route = Null
    /\ triageCalls = 0
    /\ clickedId = NoId
    /\ geo = Null
    /\ classified = Null
    /\ pva = PatientAssistantMounted
    /\ va = VoiceAssistantMounted

history == <<locSource, arrivals, arrivalRuns, served, legTicks, idleTicks,
             watchCount>>

(***************************************************************************)
(* Operations of App.                                                      *)
(***************************************************************************)
\* the role selector: onChange={(e) => setActiveRole(e.target.value)}
SetActiveRole(role) ==
    /\ role # activeRole
    /\ activeRole' = role
    /\ UNCHANGED <<auxVars, gridVars, geoSupported, sosActive, sosState, patientLocation,
                   droneLocation, eta, telemetry, systemOnline, geoPending,
                   sosTimeout, watchLive, intervals, history>>

\* handleSOS, up to the geolocation request.  The SOS button is on the
\* patient screen shown while sosActive is false, disabled while REQUESTING.
HandleSOS ==
    /\ activeRole = "PATIENT"
    /\ ~sosActive
    /\ sosState # "REQUESTING"
    /\ sosState' = "REQUESTING"
    /\ geoPending' = geoSupported
    /\ UNCHANGED <<auxVars, activeRole, geoSupported, sosActive, patientLocation,
                   droneLocation, eta, telemetry, systemOnline, sosTimeout,
                   watchLive, intervals, history, gridVars>>

\* handleSOS: the success callback of getCurrentPosition
GeoSuccess(fix) ==
    /\ geoPending
    /\ LET initialDronePos == Pos(fix.lat + DroneStartOffset, fix.lng + DroneStartOffset)
           distance == calculateDistance(initialDronePos.lat, initialDronePos.lng,
                                         fix.lat, fix.lng)
       IN /\ patientLocation' = fix
          /\ droneLocation' = initialDronePos
          /\ sosTimeout' = <<calculateETA(distance)>>
          /\ intervals' = MovementEffect(intervals, sosActive, fix, initialDronePos)
    /\ geoPending' = FALSE
    /\ locSource' = "GPS"
    /\ arrivals' = 0
    /\ arrivalRuns' = 0
    /\ legTicks' = 0
    /\ UNCHANGED <<auxVars, gridVars, activeRole, geoSupported, sosActive, sosState, eta, telemetry,
                   systemOnline, watchLive, served, idleTicks, watchCount>>

\* handleSOS: the setTimeout callback of the success path
SosTimeoutFires ==
    /\ sosTimeout # <<>>
    /\ sosState' = "ACTIVE"
    /\ sosActive' = TRUE
    /\ eta' = sosTimeout[1]
    /\ sosTimeout' = <<>>
    /\ watchLive' = WatchEffect(TRUE)
    /\ intervals' = MovementEffect(intervals, TRUE, patientLocation, droneLocation)
    /\ UNCHANGED <<auxVars, gridVars, activeRole, geoSupported, patientLocation, droneLocation,
                   telemetry, systemOnline, geoPending, history>>

\* handleSOS: the error callback of getCurrentPosition (error.code 1, 2 or 3
\* only chooses the text of the alert)
GeoError(code) ==
    /\ geoPending
    /\ LET fallbackPatient == Pos(DelhiLat, DelhiLng)
           fallbackDrone == Pos(DelhiLat + DroneStartOffset, DelhiLng + DroneStartOffset)
       IN /\ patientLocation' = fallbackPatient
          /\ droneLocation' = fallbackDrone
          /\ intervals' = MovementEffect(intervals, TRUE, fallbackPatient, fallbackDrone)
    /\ sosState' = "ACTIVE"
    /\ sosActive' = TRUE
    /\ eta' = "8 min"
    /\ geoPending' = FALSE
    /\ watchLive' = WatchEffect(TRUE)
    /\ locSource' = "FALLBACK"
    /\ arrivals' = 0
    /\ arrivalRuns' = 0
    /\ legTicks' = 0
    /\ UNCHANGED <<auxVars, gridVars, activeRole, geoSupported, telemetry, systemOnline,
                   sosTimeout, served, idleTicks, watchCount>>

\* the success callback of watchPosition in the live tracking effect
WatchPosition(fix) ==
    /\ watchLive
    /\ watchCount < MaxWatch
    /\ intervals # <<>> => legTicks % WatchEvery = 0
    /\ patientLocation' = fix
    /\ intervals' = MovementEffect(intervals, sosActive, fix, droneLocation)
    /\ locSource' = "GPS"
    /\ arrivals' = IF fix = patientLocation THEN arrivals ELSE 0
    /\ arrivalRuns' = IF fix = patientLocation THEN arrivalRuns ELSE 0
    /\ legTicks' = IF fix = patientLocation THEN legTicks ELSE 0
    /\ watchCount' = watchCount + 1
    /\ UNCHANGED <<auxVars, gridVars, activeRole, geoSupported, sosActive, sosState, droneLocation,
                   eta, telemetry, systemOnline, geoPending, sosTimeout,
                   watchLive, served, idleTicks>>

\* clearInterval(interval) inside the callback of the i-th live interval
ClearOwnInterval(ivs, i) == SubSeq(ivs, 1, i - 1) \o SubSeq(ivs, i + 1, Len(ivs))

\* a faulty arrival branch: the 2% step is taken before the interval is cleared
TickArrive_StillMoves(i) ==
    /\ i \in 1..Len(intervals)
    /\ Arrived(DistanceBetween(droneLocation, intervals[i]))
    /\ droneLocation' = Pos(droneLocation.lat + Fraction(intervals[i].lat - droneLocation.lat),
                            droneLocation.lng + Fraction(intervals[i].lng - droneLocation.lng))
    /\ intervals' = <<>>
    /\ eta' = "ARRIVED"
    /\ arrivals' = IF eta = "ARRIVED" THEN arrivals ELSE arrivals + 1
    /\ served' = IF eta = "ARRIVED" THEN served ELSE served + 1
    /\ arrivalRuns' = arrivalRuns + 1
    /\ UNCHANGED <<auxVars, gridVars, activeRole, geoSupported, sosActive, sosState, patientLocation,
                   telemetry, systemOnline, geoPending, sosTimeout,
                   watchLive, locSource, legTicks, idleTicks, watchCount>>

\* the interval callback, arrival branch: distance < 0.05.  The updater
\* returns prev, so App renders again only when setEta changes eta, and no
\* dependency of the movement effect changes.
TickArrive(i) ==
    /\ i \in 1..Len(intervals)
    /\ Arrived(DistanceBetween(droneLocation, intervals[i]))
    /\ intervals' = ClearOwnInterval(intervals, i)
    /\ eta' = "ARRIVED"
    /\ arrivals' = IF eta = "ARRIVED" THEN arrivals ELSE arrivals + 1
    /\ served' = IF eta = "ARRIVED" THEN served ELSE served + 1
    /\ arrivalRuns' = arrivalRuns + 1
    /\ UNCHANGED <<auxVars, gridVars, activeRole, geoSupported, sosActive, sosState, patientLocation,
                   droneLocation, telemetry, systemOnline, geoPending, sosTimeout,
                   watchLive, locSource, legTicks, idleTicks, watchCount>>

\* the interval callback, movement branch: 2% closer, new ETA.  The new
\* droneLocation object re-runs the movement effect.
TickMove(i) ==
    /\ i \in 1..Len(intervals)
    /\ ~Arrived(DistanceBetween(droneLocation, intervals[i]))
    /\ LET newPos == StepToward(droneLocation, intervals[i])
           newDistance == calculateDistance(newPos.lat, newPos.lng,
                                            intervals[i].lat, intervals[i].lng)
       IN /\ droneLocation' = newPos
          /\ eta' = calculateETA(newDistance)
          /\ intervals' = MovementEffect(intervals, sosActive, patientLocation, newPos)
    /\ legTicks' = legTicks + 1
    /\ UNCHANGED <<auxVars, gridVars, activeRole, geoSupported, sosActive, sosState, patientLocation,
                   telemetry, systemOnline, geoPending, sosTimeout, watchLive,
                   locSource, arrivals, arrivalRuns, served, idleTicks, watchCount>>

\* a one-second period in which no interval exists (the effect returned early
\* or the interval was cleared): no callback runs
TickIdle ==
    /\ intervals = <<>>
    /\ idleTicks < MaxIdle
    /\ idleTicks' = idleTicks + 1
    /\ UNCHANGED <<auxVars, appVars, gridVars, locSource, arrivals, arrivalRuns, served,
                   legTicks, watchCount>>

\* one period of the one-second timer
Tick == TickIdle \/ \E i \in 1..Len(intervals) : TickArrive(i) \/ TickMove(i)

\* a faulty poll: the response also resets the drone to its base
FetchDroneStatusOk_WritesPosition(data) ==
    /\ telemetry' = data
    /\ systemOnline' = TRUE
    /\ droneLocation' = Pos(DelhiLat, DelhiLng)
    /\ UNCHANGED <<auxVars, gridVars, activeRole, geoSupported, sosActive, sosState, patientLocation,
                   eta, geoPending, sosTimeout, watchLive, intervals, history>>

\* fetchDroneStatus: the request succeeded
FetchDroneStatusOk(data) ==
    /\ telemetry' = data
    /\ systemOnline' = TRUE
    /\ UNCHANGED <<auxVars, gridVars, activeRole, geoSupported, sosActive, sosState, patientLocation,
                   droneLocation, eta, geoPending, sosTimeout, watchLive,
                   intervals, history>>

\* fetchDroneStatus: the request failed
FetchDroneStatusFailed ==
    /\ systemOnline' = FALSE
    /\ UNCHANGED <<auxVars, gridVars, activeRole, geoSupported, sosActive, sosState, patientLocation,
                   droneLocation, eta, telemetry, geoPending, sosTimeout,
                   watchLive, intervals, history>>

Next ==
    \/ \E role \in Roles : SetActiveRole(role)
    \/ HandleSOS
    \/ \E fix \in GpsFixes : GeoSuccess(fix)
    \/ SosTimeoutFires
    \/ \E code \in 1..3 : GeoError(code)
    \/ \E fix \in GpsFixes : WatchPosition(fix)
    \/ TickIdle
    \/ \E i \in 1..Len(intervals) : TickArrive(i)
    \/ \E i \in 1..Len(intervals) : TickMove(i)
    \/ \E data \in StatusResponses : FetchDroneStatusOk(data)
    \/ FetchDroneStatusFailed

\* App: the SOS request, the patient watch, the movement timer, the telemetry
\* poll and the role selector.  TacticalMapGrid's own state is left as it is;
\* SpecGrid is the grid with App as its environment.
Spec == Init /\ [][Next]_vars

\* App with its callbacks delivered: the browser answers getCurrentPosition
\* (its timeout option is 10 s), the 1500 ms timeout fires, and a live
\* interval runs its callback every second
SpecLive ==
    /\ Init
    /\ [][Next]_vars
    /\ WF_vars((\E fix \in GpsFixes : GeoSuccess(fix)) \/ (\E code \in 1..3 : GeoError(code)))
    /\ WF_vars(SosTimeoutFires)
    /\ WF_vars(\E i \in 1..Len(intervals) : TickArrive(i) \/ TickMove(i))

(***************************************************************************)
(* TacticalMapGrid, with App as the environment that renders it: SOS is    *)
(* active, and App's renders pass the role, the patient location, the      *)
(* drone location (a sample of the positions of a flight) and telemetry.   *)
(***************************************************************************)
\* droneLocation at the start of a flight from the fallback position, after
\* its first step, midway and at arrival
DroneSamples ==
    { Pos(DelhiLat + 1000, DelhiLng + 1000), Pos(DelhiLat + 980, DelhiLng + 980),
      Pos(DelhiLat + 490, DelhiLng + 490), Pos(DelhiLat + 33, DelhiLng + 33) }

InitGrid ==
    /\ activeRole = "PATIENT"
    /\ geoSupported = TRUE
    /\ sosActive = TRUE
    /\ sosState = "ACTIVE"
    /\ patientLocation = Pos(DelhiLat, DelhiLng)
    /\ droneLocation = Pos(DelhiLat + DroneStartOffset, DelhiLng + DroneStartOffset)
    /\ eta = "8 min"
    /\ telemetry = InitialTelemetry
    /\ systemOnline = TRUE
    /\ geoPending = FALSE
    /\ sosTimeout = <<>>
    /\ watchLive = TRUE
    /\ intervals = <<patientLocation>>
    /\ nearbyPatients = <<>>
    /\ selectedPatientId = NoId
    /\ patientRankings = <<>>
    /\ rankedPatients = <<>>
    /\ locSource = "FALLBACK"
    /\ arrivals = 0
    /\ arrivalRuns = 0
    /\ served = 0
    /\ legTicks = 0
    /\ idleTicks = 0
    /\ watchCount = 0
    /\ analysisResults = Null
    /\ isAnalyzing = FALSE
    /\ uploadedImage = FALSE
    /\ isAnalyzingImage = FALSE
    /\ props = Null
    /\ route = Null
    /\ triageCalls = 0
    /\ clickedId = NoId
    /\ geo = Null
    /\ classified = Null
    /\ pva = PatientAssistantMounted
    /\ va = VoiceAssistantMounted

CurrentPatients == AllPatients(RealPatientProp(patientLocation), nearbyPatients)

CurrentDrone == DroneProp(droneLocation, telemetry)

\* a render of App (a role change, a movement step, a watch callback, a
\* telemetry response) as the grid sees it
AppRenders(role, ploc, dloc, tel) ==
    /\ activeRole' = role
    /\ patientLocation' = ploc
    /\ droneLocation' = dloc
    /\ telemetry' = tel
    /\ intervals' = MovementEffect(intervals, sosActive, ploc, dloc)
    /\ GridRender(role, sosActive, ploc, dloc, tel, TRUE)
    /\ clickedId' = IF GridShown(role, sosActive, ploc) THEN clickedId ELSE NoId
    /\ UNCHANGED <<triageVars, props, route, moreVars, geoSupported, sosActive, sosState, eta, systemOnline,
                   geoPending, sosTimeout, watchLive, history>>

\* onClick={() => setSelectedPatientId(patient.id)} of a TacticalMap
ClickPatient(k) ==
    /\ GridMounted
    /\ k \in 1..Len(CurrentPatients)
    /\ selectedPatientId' = CurrentPatients[k].id
    /\ clickedId' = CurrentPatients[k].id
    /\ UNCHANGED <<triageVars, props, route, moreVars, appVars, history, nearbyPatients, patientRankings, rankedPatients>>

\* handleRegenerate ("Recalculate Coordinates"): new nearby patients, so
\* allPatients changes and the rankings and the auto-select effect run again
HandleRegenerate(draw) ==
    /\ GridMounted
    /\ LET nearby == generateNearbyPatients(RealPatientProp(patientLocation), draw)
           all == AllPatients(RealPatientProp(patientLocation), nearby)
           changed == RankDepsChanged(TRUE, FALSE)
       IN /\ nearbyPatients' = nearby
          /\ selectedPatientId' = AutoSelect(all, CurrentDrone)
          /\ rankedPatients' = Memo(rankedPatients, changed, RankPanel(all, CurrentDrone))
          /\ patientRankings' = Memo(patientRankings, changed, RankMap(all, CurrentDrone))
    /\ UNCHANGED <<auxVars, appVars, history>>

NextGrid ==
    \/ \E role \in Roles, ploc \in GpsFixes, dloc \in DroneSamples,
          tel \in {InitialTelemetry} \cup StatusResponses :
            AppRenders(role, ploc, dloc, tel)
    \/ \E k \in 1..4 : ClickPatient(k)
    \/ \E draw \in NearbyDraws : HandleRegenerate(draw)

SpecGrid == InitGrid /\ [][NextGrid]_vars

(***************************************************************************)
(* The ranking as a function of its inputs: the grid holds any list of     *)
(* nearby cases (severities, and positions at the patient and at the       *)
(* drone), and one render ranks them.                                      *)
(***************************************************************************)
\* the latitude offset whose distance one point of severity outweighs (1.5 km)
TieOffset == PriorityPerSeverity \div 10

RankCases ==
    { [latitude |-> DelhiLat + dlat, longitude |-> DelhiLng, severity |-> sev] :
        dlat \in {0, TieOffset}, sev \in {8, 9} }

RECURSIVE CaseLists(_)
CaseLists(n) ==
    IF n = 0 THEN { <<>> }
    ELSE LET shorter == CaseLists(n - 1)
         IN shorter \cup { Append(l, c) : l \in {x \in shorter : Len(x) = n - 1},
                                          c \in RankCases }

WithIds(cases) ==
    [i \in 1..Len(cases) |->
        [id |-> "PATIENT_P" \o ToString(i + 1), latitude |-> cases[i].latitude,
         longitude |-> cases[i].longitude, severity |-> cases[i].severity]]

InitRank ==
    /\ activeRole = "OPERATOR"
    /\ geoSupported = TRUE
    /\ sosActive = TRUE
    /\ sosState = "ACTIVE"
    /\ patientLocation = Pos(DelhiLat, DelhiLng)
    /\ droneLocation \in { Pos(DelhiLat + TieOffset, DelhiLng),
                           Pos(DelhiLat + DroneStartOffset, DelhiLng + DroneStartOffset) }
    /\ eta = "8 min"
    /\ telemetry = InitialTelemetry
    /\ systemOnline = TRUE
    /\ geoPending = FALSE
    /\ sosTimeout = <<>>
    /\ watchLive = TRUE
    /\ intervals = <<patientLocation>>
    /\ nearbyPatients \in { WithIds(l) : l \in CaseLists(MaxCases) }
    /\ selectedPatientId = NoId
    /\ patientRankings = <<>>
    /\ rankedPatients = <<>>
    /\ locSource = "FALLBACK"
    /\ arrivals = 0
    /\ arrivalRuns = 0
    /\ served = 0
    /\ legTicks = 0
    /\ idleTicks = 0
    /\ watchCount = 0
    /\ analysisResults = Null
    /\ isAnalyzing = FALSE
    /\ uploadedImage = FALSE
    /\ isAnalyzingImage = FALSE
    /\ props = Null
    /\ route = Null
    /\ triageCalls = 0
    /\ clickedId = NoId
    /\ geo = Null
    /\ classified = Null
    /\ pva = PatientAssistantMounted
    /\ va = VoiceAssistantMounted

\* the render of TacticalMapGrid and PriorityRankingPanel over the cases held
RankRender ==
    /\ rankedPatients = <<>>
    /\ rankedPatients' = RankPanel(CurrentPatients, CurrentDrone)
    /\ patientRankings' = RankMap(CurrentPatients, CurrentDrone)
    /\ selectedPatientId' = AutoSelect(CurrentPatients, CurrentDrone)
    /\ UNCHANGED <<auxVars, appVars, history, nearbyPatients>>

NextRank == RankRender

SpecRank == InitRank /\ [][NextRank]_vars

(***************************************************************************)
(* TacticalMapGrid as a component: a caller mounts it with any realPatient *)
(* and drone props and renders it again with new ones.                     *)
(***************************************************************************)
\* the severities a caller passes: none (0), in range, above and below it
PropSeverities == {0, 9, 15, -3}

\* the realPatient props: null, or a patient whose latitude may be missing
PropPatients ==
    {Null} \cup
    { [id |-> "PRIMARY_SOS", latitude |-> lat, longitude |-> DelhiLng,
       severity |-> sev] : lat \in {DelhiLat, NaN}, sev \in PropSeverities }

PropDrones ==
    { Null,
      DroneProp(Pos(DelhiLat + DroneStartOffset, DelhiLng + DroneStartOffset),
                InitialTelemetry) }

GridProps == [realPatient : PropPatients, drone : PropDrones]

\* the dependencies [realPatient?.latitude, realPatient?.longitude]
NearbyDeps(realPatient) ==
    IF realPatient = Null THEN <<NaN, NaN>>
    ELSE <<realPatient.latitude, realPatient.longitude>>

\* the permutations of 1..n
Orderings(n) == { f \in [1..n -> 1..n] : \A i, j \in 1..n : f[i] = f[j] => i = j }

\* the comparator is consistent over seq: no priority is NaN
Comparable(seq) == \A i \in 1..Len(seq) : seq[i].priority # NaN

\* Array.prototype.sort by priority: the stable descending order, or, with an
\* inconsistent comparator, any order the engine picks
SortOutcomes(seq) ==
    IF Comparable(seq) THEN { SortByPriority(seq) }
    ELSE { [i \in 1..Len(seq) |-> seq[order[i]]] : order \in Orderings(Len(seq)) }

ScoredAll(patients, drone) ==
    [i \in 1..Len(patients) |-> Scored(patients[i], drone)]

\* the sorted lists one render may compute from its cases
RankedOutcomes(allPatients, drone) ==
    IF Len(allPatients) = 0 \/ drone = Null THEN { <<>> }
    ELSE SortOutcomes(ScoredAll(allPatients, drone))

\* rankings[item.id] = index + 1 over a ranked list
RankingsOf(ranked) ==
    [id \in {ranked[k].id : k \in 1..Len(ranked)} |->
        CHOOSE k \in 1..Len(ranked) :
            /\ ranked[k].id = id
            /\ \A j \in 1..Len(ranked) : ranked[j].id = id => j <= k]

\* TacticalMapGrid: patientRankings with its guard
PatientRankings(allPatients, drone, ranked) ==
    IF Len(allPatients) = 0 \/ drone = Null THEN <<>>
    ELSE RankingsOf(ranked)

\* the auto-select effect with its guard
AutoSelectEffect(allPatients, drone, selected) ==
    IF Len(allPatients) = 0 \/ drone = Null THEN selected
    ELSE AutoSelect(allPatients, drone)

\* PriorityRankingPanel, rendered unless the placeholder is returned
PanelRanking(realPatient, drone, ranked) ==
    IF realPatient = Null \/ drone = Null THEN <<>>
    ELSE ranked

\* what a render of the grid leaves over the cases allPatients
RanksCases(realPatient, drone, allPatients) ==
    \E ranked \in RankedOutcomes(allPatients, drone) :
        /\ patientRankings' = PatientRankings(allPatients, drone, ranked)
        /\ selectedPatientId' = AutoSelectEffect(allPatients, drone, selectedPatientId)
        /\ rankedPatients' = PanelRanking(realPatient, drone, ranked)

\* a render of TacticalMapGrid with props p (the mount while props is Null):
\* the nearby effect regenerates when the coordinates changed, then
\* allPatients, patientRankings, the auto-select effect and the panel follow
RenderProps(p, draw) ==
    /\ LET mounting == props = Null
           previous == IF mounting THEN Null ELSE props.realPatient
           regenerate == /\ p.realPatient # Null
                         /\ (mounting \/ NearbyDeps(p.realPatient) # NearbyDeps(previous))
           nearby == IF regenerate THEN generateNearbyPatients(p.realPatient, draw)
                     ELSE nearbyPatients
       IN /\ nearbyPatients' = nearby
          /\ RanksCases(p.realPatient, p.drone, AllPatients(p.realPatient, nearby))
    /\ props' = p
    /\ UNCHANGED <<appVars, history, triageVars, route, moreVars, clickedId>>

\* handleRegenerate of the grid mounted with props
RegenerateProps(draw) ==
    /\ props # Null
    /\ props.realPatient # Null
    /\ props.drone # Null
    /\ LET nearby == generateNearbyPatients(props.realPatient, draw)
       IN /\ nearbyPatients' = nearby
          /\ RanksCases(props.realPatient, props.drone,
                        AllPatients(props.realPatient, nearby))
    /\ UNCHANGED <<appVars, history, triageVars, props, route, moreVars, clickedId>>

NextProps ==
    \/ \E p \in GridProps, draw \in NearbyDraws : RenderProps(p, draw)
    \/ \E draw \in NearbyDraws : RegenerateProps(draw)

SpecProps == Init /\ [][NextProps]_vars

\* the cases the grid ranks while mounted with props
PropCases == AllPatients(props.realPatient, nearbyPatients)

(***************************************************************************)
(* Triage: App sends a video frame or an uploaded image to /dispatch and   *)
(* renders the result; the critical time window is computed in the render. *)
(***************************************************************************)
\* the words of an injury_type text; a text is a sequence of words
CaptionWords == {"BLEEDING", "unresponsive", "fractured", "burn"}

RECURSIVE Texts(_)
Texts(n) ==
    IF n = 0 THEN { <<>> }
    ELSE LET shorter == Texts(n - 1)
         IN shorter \cup { Append(t, w) : t \in {x \in shorter : Len(x) = n - 1},
                                          w \in CaptionWords }

\* the injury_type values of a response: texts of one word or more
Captions == Texts(MaxCaptionLen) \ { <<>> }

\* the analysis objects of a /dispatch response
Analyses ==
    [severity_score : 0..MaxSeverityScore, injury_type : Captions]

\* String.prototype.toLowerCase
toLowerCase(text) ==
    [i \in 1..Len(text) |->
        CASE text[i] = "BLEEDING" -> "bleeding"
          [] text[i] = "Unconscious" -> "unconscious"
          [] OTHER -> text[i]]

\* the substrings of a word that are keywords of the analyzer
PartsOf(word) == IF word = "fractured" THEN {"fractured", "fracture"} ELSE {word}

\* String.prototype.includes
includes(text, key) == \E i \in 1..Len(text) : key \in PartsOf(text[i])

\* a faulty analyzer: > instead of >= at every threshold
analyzeCriticalTimeWindow_StrictThresholds(severityScore, injuryType) ==
    IF severityScore > 9
    THEN [timeRange |-> "0-5 minutes", timeMinutes |-> 5, urgencyLabel |-> "IMMEDIATE",
          explanation |-> <<"Extreme severity detected.">>]
    ELSE IF severityScore > 7
    THEN [timeRange |-> "5-15 minutes", timeMinutes |-> 15, urgencyLabel |-> "CRITICAL",
          explanation |-> <<"Critical condition identified.">>]
    ELSE IF severityScore > 4
    THEN [timeRange |-> "15-30 minutes", timeMinutes |-> 30, urgencyLabel |-> "URGENT",
          explanation |-> <<"Urgent medical attention required.">>]
    ELSE [timeRange |-> "30-60 minutes", timeMinutes |-> 60, urgencyLabel |-> "STABLE",
          explanation |-> <<"Patient appears stable.">>]

\* a faulty analyzer: a hemorrhage cue moves the case one band up
analyzeCriticalTimeWindow_CueEscalates(severityScore, injuryType) ==
    LET cue == includes(toLowerCase(injuryType), "bleeding")
               \/ includes(toLowerCase(injuryType), "hemorrhage")
    IN IF severityScore >= 9 \/ (cue /\ severityScore >= 7)
       THEN [timeRange |-> "0-5 minutes", timeMinutes |-> 5, urgencyLabel |-> "IMMEDIATE",
             explanation |-> <<"Extreme severity detected.">>]
       ELSE IF severityScore >= 7 \/ (cue /\ severityScore >= 4)
       THEN [timeRange |-> "5-15 minutes", timeMinutes |-> 15, urgencyLabel |-> "CRITICAL",
             explanation |-> <<"Critical condition identified.">>]
       ELSE IF severityScore >= 4 \/ cue
       THEN [timeRange |-> "15-30 minutes", timeMinutes |-> 30, urgencyLabel |-> "URGENT",
             explanation |-> <<"Urgent medical attention required.">>]
       ELSE [timeRange |-> "30-60 minutes", timeMinutes |-> 60, urgencyLabel |-> "STABLE",
             explanation |-> <<"Patient appears stable.">>]

\* analyzeCriticalTimeWindow; the explanation is the sequence of its sentences
\* (the first one stands for the band's paragraph)
analyzeCriticalTimeWindow(severityScore, injuryType) ==
    LET caption == toLowerCase(injuryType)
        band ==
            IF severityScore >= 9
            THEN [timeRange |-> "0-5 minutes", timeMinutes |-> 5,
                  urgencyLabel |-> "IMMEDIATE",
                  explanation |-> <<"Extreme severity detected.">>]
            ELSE IF severityScore >= 7
            THEN [timeRange |-> "5-15 minutes", timeMinutes |-> 15,
                  urgencyLabel |-> "CRITICAL",
                  explanation |-> <<"Critical condition identified.">>]
            ELSE IF severityScore >= 4
            THEN [timeRange |-> "15-30 minutes", timeMinutes |-> 30,
                  urgencyLabel |-> "URGENT",
                  explanation |-> <<"Urgent medical attention required.">>]
            ELSE [timeRange |-> "30-60 minutes", timeMinutes |-> 60,
                  urgencyLabel |-> "STABLE",
                  explanation |-> <<"Patient appears stable.">>]
        hemorrhage ==
            IF includes(caption, "bleeding") \/ includes(caption, "hemorrhage")
            THEN <<" Hemorrhage indicators reduce available time window.">> ELSE <<>>
        consciousness ==
            IF includes(caption, "unconscious") \/ includes(caption, "unresponsive")
            THEN <<" Loss of consciousness escalates urgency.">> ELSE <<>>
        trauma ==
            IF includes(caption, "fracture") /\ severityScore >= 7
            THEN <<" Severe structural trauma may indicate internal injuries.">> ELSE <<>>
    IN [band EXCEPT !.explanation = @ \o hemorrhage \o consciousness \o trauma]

\* the transformedData of handleTriage and handleImageAnalysis
TransformedData(analysis, source) ==
    [severity |-> analysis.severity_score, primary_injury |-> analysis.injury_type,
     source |-> source]

\* a faulty handleTriage: no isAnalyzing guard and the button never disabled
HandleTriage_NoGuard ==
    /\ activeRole = "OPERATOR"
    /\ isAnalyzing' = TRUE
    /\ analysisResults' = Null
    /\ triageCalls' = triageCalls + 1
    /\ UNCHANGED <<appVars, gridVars, history, uploadedImage, isAnalyzingImage, props, route, moreVars, clickedId>>

\* handleTriage, up to the request
HandleTriage ==
    /\ activeRole = "OPERATOR"
    /\ ~isAnalyzing
    /\ isAnalyzing' = TRUE
    /\ analysisResults' = Null
    /\ triageCalls' = triageCalls + 1
    /\ UNCHANGED <<appVars, gridVars, history, uploadedImage, isAnalyzingImage, props, route, moreVars, clickedId>>

\* handleTriage: the response of /dispatch, then the finally block
TriageResponds(analysis) ==
    /\ triageCalls > 0
    /\ analysisResults' = TransformedData(analysis, "live_video_frame")
    /\ isAnalyzing' = FALSE
    /\ triageCalls' = triageCalls - 1
    /\ UNCHANGED <<appVars, gridVars, history, uploadedImage, isAnalyzingImage, props, route, moreVars, clickedId>>

\* handleTriage: the catch block (no video, no response, an error status),
\* then the finally block
TriageFails ==
    /\ triageCalls > 0
    /\ isAnalyzing' = FALSE
    /\ triageCalls' = triageCalls - 1
    /\ UNCHANGED <<appVars, gridVars, history, analysisResults, uploadedImage,
                   isAnalyzingImage, props, route, moreVars, clickedId>>

\* handleImageUpload with an image file
HandleImageUpload ==
    /\ ~uploadedImage
    /\ uploadedImage' = TRUE
    /\ UNCHANGED <<appVars, gridVars, history, analysisResults, isAnalyzing,
                   isAnalyzingImage, props, route,
                   triageCalls, moreVars, clickedId>>

\* handleImageAnalysis, up to the request; its button is disabled while
\* !uploadedImage || isAnalyzingImage
HandleImageAnalysis ==
    /\ uploadedImage
    /\ ~isAnalyzingImage
    /\ isAnalyzingImage' = TRUE
    /\ UNCHANGED <<appVars, gridVars, history, analysisResults, isAnalyzing,
                   uploadedImage, props, route,
                   triageCalls, moreVars, clickedId>>

\* handleImageAnalysis: the response of /dispatch, then the finally block
ImageResponds(analysis) ==
    /\ isAnalyzingImage
    /\ analysisResults' = TransformedData(analysis, "uploaded_image")
    /\ isAnalyzingImage' = FALSE
    /\ UNCHANGED <<appVars, gridVars, history, isAnalyzing, uploadedImage, props, route,
                   triageCalls, moreVars, clickedId>>

\* handleImageAnalysis: the catch block, then the finally block
ImageFails ==
    /\ isAnalyzingImage
    /\ isAnalyzingImage' = FALSE
    /\ UNCHANGED <<appVars, gridVars, history, analysisResults, isAnalyzing,
                   uploadedImage, props, route,
                   triageCalls, moreVars, clickedId>>

NextTriage ==
    \/ HandleTriage
    \/ \E analysis \in Analyses : TriageResponds(analysis)
    \/ TriageFails
    \/ HandleImageUpload
    \/ HandleImageAnalysis
    \/ \E analysis \in Analyses : ImageResponds(analysis)
    \/ ImageFails

SpecTriage == Init /\ [][NextTriage]_vars

\* the timeWindow of the results display
timeWindow ==
    analyzeCriticalTimeWindow(analysisResults.severity, analysisResults.primary_injury)

(***************************************************************************)
(* The route optimizer: optimize(vehicle_position, case_positions[]),     *)
(* modelled from its contract.                                             *)
(***************************************************************************)
\* the exact-solve bound: the largest target count solved exactly
ExactSolveBound == 4

\* the positions of the candidate targets, as offsets from the Delhi centre;
\* target i of 1..MaxTargets is the case with id i
TargetOffsets ==
    << [dlat |-> 400, dlng |-> 0], [dlat |-> 1000, dlng |-> 0],
       [dlat |-> -500, dlng |-> 0], [dlat |-> 300, dlng |-> 900],
       [dlat |-> -200, dlng |-> -700], [dlat |-> 1200, dlng |-> 600],
       [dlat |-> -900, dlng |-> 400], [dlat |-> 100, dlng |-> -1100] >>

TargetPos(i) ==
    LET offset == TargetOffsets[((i - 1) % Len(TargetOffsets)) + 1]
    IN Pos(DelhiLat + offset.dlat, DelhiLng + offset.dlng)

\* the vehicle positions of a call
RouteVehicles ==
    { Pos(DelhiLat, DelhiLng),
      Pos(DelhiLat + DroneStartOffset, DelhiLng + DroneStartOffset) }

\* the haversine distance of one leg
Leg(a, b) == calculateHaversineDistance(a.lat, a.lng, b.lat, b.lng)

RECURSIVE TourFrom(_, _, _)
TourFrom(at, ids, i) ==
    IF i > Len(ids) THEN 0
    ELSE Leg(at, TargetPos(ids[i])) + TourFrom(TargetPos(ids[i]), ids, i + 1)

\* the length of the open tour that starts at the vehicle and visits ids in order
TourLength(vehicle, ids) == TourFrom(vehicle, ids, 1)

Shortest(paths) ==
    CHOOSE p \in paths :
        \A q \in paths : p.total_distance_km <= q.total_distance_km

RECURSIVE HeldKarp(_, _, _)
\* dynamic programming over subsets: the shortest path from the vehicle
\* through every target of S that ends at j
HeldKarp(vehicle, S, j) ==
    IF S = {j}
    THEN [ordered_ids |-> <<j>>, total_distance_km |-> Leg(vehicle, TargetPos(j))]
    ELSE Shortest({ LET before == HeldKarp(vehicle, S \ {j}, k)
                    IN [ordered_ids |-> Append(before.ordered_ids, j),
                        total_distance_km |-> before.total_distance_km
                                              + Leg(TargetPos(k), TargetPos(j))] :
                    k \in S \ {j} })

\* the exact solver: the best of the shortest paths over every last target
ExactRoute(vehicle, targets) ==
    Shortest({ HeldKarp(vehicle, targets, j) : j \in targets })

RECURSIVE NearestUnvisited(_, _, _)
\* the greedy heuristic: always on to the nearest target not yet visited
\* (the lowest id among equally near ones)
NearestUnvisited(at, remaining, path) ==
    IF remaining = {} THEN path
    ELSE LET next == CHOOSE j \in remaining :
                        \A k \in remaining :
                            \/ Leg(at, TargetPos(j)) < Leg(at, TargetPos(k))
                            \/ /\ Leg(at, TargetPos(j)) = Leg(at, TargetPos(k))
                               /\ j <= k
         IN NearestUnvisited(TargetPos(next), remaining \ {next},
                [ordered_ids |-> Append(path.ordered_ids, next),
                 total_distance_km |-> path.total_distance_km
                                       + Leg(at, TargetPos(next))])

GreedyRoute(vehicle, targets) ==
    NearestUnvisited(vehicle, targets, [ordered_ids |-> <<>>, total_distance_km |-> 0])

Flagged(path, approximate) ==
    [ordered_ids |-> path.ordered_ids,
     total_distance_km |-> path.total_distance_km,
     approximate |-> approximate]

\* a faulty optimizer: the greedy heuristic at every size
optimize_AlwaysGreedy(vehicle, targets) ==
    Flagged(GreedyRoute(vehicle, targets), Cardinality(targets) > ExactSolveBound)

\* a faulty optimizer: the approximate result is not flagged
optimize_NeverFlags(vehicle, targets) ==
    IF targets = {}
    THEN [ordered_ids |-> <<>>, total_distance_km |-> 0, approximate |-> FALSE]
    ELSE IF Cardinality(targets) <= ExactSolveBound
    THEN Flagged(ExactRoute(vehicle, targets), FALSE)
    ELSE Flagged(GreedyRoute(vehicle, targets), FALSE)

\* optimize: exact up to the bound, greedy and flagged above it; no target
\* gives the empty route of distance 0
optimize(vehicle, targets) ==
    IF targets = {}
    THEN [ordered_ids |-> <<>>, total_distance_km |-> 0, approximate |-> FALSE]
    ELSE IF Cardinality(targets) <= ExactSolveBound
    THEN Flagged(ExactRoute(vehicle, targets), FALSE)
    ELSE Flagged(GreedyRoute(vehicle, targets), TRUE)

\* one call of optimize
Optimize(vehicle, targets) ==
    /\ route' = [vehicle |-> vehicle, targets |-> targets,
                 result |-> optimize(vehicle, targets)]
    /\ UNCHANGED <<appVars, gridVars, history, triageVars, props, moreVars, clickedId>>

NextRoute ==
    \E vehicle \in RouteVehicles, targets \in SUBSET (1..MaxTargets) :
        Optimize(vehicle, targets)

SpecRoute == Init /\ [][NextRoute]_vars

\* every visiting order of a set of targets
VisitOrders(targets) ==
    { order \in [1..Cardinality(targets) -> targets] :
        \A i, j \in 1..Cardinality(targets) : order[i] = order[j] => i = j }

\* the brute-force cross-check: the least tour length over all permutations
BruteForceMin(vehicle, targets) ==
    LET lengths == { TourLength(vehicle, order) : order \in VisitOrders(targets) }
    IN CHOOSE m \in lengths : \A l \in lengths : m <= l

(***************************************************************************)
(* The voice assistants: PatientVoiceAssistant (speech recognition, text   *)
(* to /patient/voice-assistant) and the console's VoiceAssistant (recorded *)
(* audio to the same endpoint).                                            *)
(***************************************************************************)
\* what a request to /patient/voice-assistant ends with: a body with text, a
\* body with assistant_text only, a body with neither, a network error, or a
\* status that is not OK
BackendOutcomes == {"text", "assistant_text", "notext", "network", "status"}

PatientFallback ==
    "I'm here with you. Help is on the way. Can you tell me more about how you're feeling?"

PatientGreeting == "Hello, I'm PranAir's emergency assistant."

VoiceFailText == "I am here with you. Help is on the way."

\* sendInitialGreeting, from the timeout of the mount effect
GreetingFires ==
    /\ pva.greeting
    /\ pva' = [pva EXCEPT !.messages = << [type |-> "ai", text |-> PatientGreeting] >>,
                          !.greeting = FALSE, !.outcome = "none"]
    /\ UNCHANGED <<appVars, gridVars, history, triageVars, props, route, clickedId,
                   geo, classified, va>>

\* handleUserMessage with a final transcript that is not blank, up to the
\* fetch of getGeminiResponse
HandleUserMessage ==
    /\ pva.requests < MaxRequests
    /\ Len(pva.messages) + pva.requests + 2 <= MaxMessages
    /\ pva' = [pva EXCEPT !.messages = Append(@, [type |-> "user", text |-> "transcript"]),
                          !.isProcessing = TRUE, !.error = "null",
                          !.requests = @ + 1, !.outcome = "none"]
    /\ UNCHANGED <<appVars, gridVars, history, triageVars, props, route, clickedId,
                   geo, classified, va>>

\* a faulty getGeminiResponse: setIsProcessing(false) at the end of the try
\* block instead of in finally
getGeminiResponse_NoFinally(state, outcome) ==
    IF outcome = "text"
    THEN [state EXCEPT !.messages = Append(@, [type |-> "ai", text |-> "reply"]),
                       !.isProcessing = FALSE, !.requests = @ - 1,
                       !.outcome = outcome]
    ELSE [state EXCEPT !.messages = Append(@, [type |-> "ai", text |-> PatientFallback]),
                       !.error = "Connection issue", !.requests = @ - 1,
                       !.outcome = outcome]

\* getGeminiResponse from the end of its fetch: !response.ok and !data.text
\* throw, the catch block adds the fallback message, finally clears
\* isProcessing
getGeminiResponse(state, outcome) ==
    IF outcome = "text"
    THEN [state EXCEPT !.messages = Append(@, [type |-> "ai", text |-> "reply"]),
                       !.isProcessing = FALSE, !.requests = @ - 1,
                       !.outcome = outcome]
    ELSE [state EXCEPT !.messages = Append(@, [type |-> "ai", text |-> PatientFallback]),
                       !.error = "Connection issue", !.isProcessing = FALSE,
                       !.requests = @ - 1, !.outcome = outcome]

PatientBackend(outcome) ==
    /\ pva.requests > 0
    /\ pva' = getGeminiResponse(pva, outcome)
    /\ UNCHANGED <<appVars, gridVars, history, triageVars, props, route, clickedId,
                   geo, classified, va>>

\* startRecording; ok is whether getUserMedia resolved
StartRecording(ok) ==
    /\ ~va.isListening
    /\ va.timers + va.requests < MaxRequests
    /\ va' = IF ok
             THEN [va EXCEPT !.recorder = "recording", !.isListening = TRUE,
                             !.status = "LISTENING", !.assistantResponse = "",
                             !.error = "null", !.outcome = "none"]
             ELSE [va EXCEPT !.error = "Could not access microphone.",
                             !.outcome = "none"]
    /\ UNCHANGED <<appVars, gridVars, history, triageVars, props, route, clickedId,
                   geo, classified, pva>>

\* the recorded stream ends (its track ends), so the MediaRecorder goes
\* inactive while the component still listens
RecorderStops ==
    /\ va.isListening
    /\ va.recorder = "recording"
    /\ va' = [va EXCEPT !.recorder = "inactive", !.outcome = "none"]
    /\ UNCHANGED <<appVars, gridVars, history, triageVars, props, route, clickedId,
                   geo, classified, pva>>

\* stopRecording (STOP & SEND, or the not-allowed error of the recognition)
StopRecording ==
    /\ va.isListening
    /\ va' = [va EXCEPT !.isListening = FALSE, !.status = "PROCESSING",
                        !.recorder = "inactive",
                        !.timers = IF va.recorder = "recording" THEN @ + 1 ELSE @,
                        !.outcome = "none"]
    /\ UNCHANGED <<appVars, gridVars, history, triageVars, props, route, clickedId,
                   geo, classified, pva>>

\* the 200 ms timeout of stopRecording; audible is audioBlob.size >= 3000,
\* and then handleSendToBackend starts its request
MicTimeout(audible) ==
    /\ va.timers > 0
    /\ va' = IF audible
             THEN [va EXCEPT !.timers = @ - 1, !.status = "PROCESSING",
                             !.requests = @ + 1, !.outcome = "none"]
             ELSE [va EXCEPT !.timers = @ - 1, !.status = "IDLE",
                             !.error = "Could not hear you (Audio too short/quiet).",
                             !.outcome = "none"]
    /\ UNCHANGED <<appVars, gridVars, history, triageVars, props, route, clickedId,
                   geo, classified, pva>>

\* handleSendToBackend from the end of its axios.post: axios rejects on a
\* network error and on a status outside 2xx; a body shows
\* text || assistant_text || "Response received"
handleSendToBackend(state, outcome) ==
    IF outcome \in {"network", "status"}
    THEN [state EXCEPT !.assistantResponse = VoiceFailText, !.status = "IDLE",
                       !.requests = @ - 1, !.outcome = outcome]
    ELSE [state EXCEPT !.assistantResponse =
                           IF outcome = "notext" THEN "Response received" ELSE "reply",
                       !.status = "IDLE", !.requests = @ - 1, !.outcome = outcome]

VoiceBackend(outcome) ==
    /\ va.requests > 0
    /\ va' = handleSendToBackend(va, outcome)
    /\ UNCHANGED <<appVars, gridVars, history, triageVars, props, route, clickedId,
                   geo, classified, pva>>

NextVoice ==
    \/ GreetingFires
    \/ HandleUserMessage
    \/ \E outcome \in BackendOutcomes \ {"assistant_text"} : PatientBackend(outcome)
    \/ \E ok \in BOOLEAN : StartRecording(ok)
    \/ RecorderStops
    \/ StopRecording
    \/ \E audible \in BOOLEAN : MicTimeout(audible)
    \/ \E outcome \in BackendOutcomes : VoiceBackend(outcome)

SpecVoice == Init /\ [][NextVoice]_vars

\* timers fire and requests end
SpecVoiceFair ==
    /\ Init
    /\ [][NextVoice]_vars
    /\ WF_vars(\E audible \in BOOLEAN : MicTimeout(audible))
    /\ WF_vars(\E outcome \in BackendOutcomes : VoiceBackend(outcome))
    /\ WF_vars(\E outcome \in BackendOutcomes : PatientBackend(outcome))

(***************************************************************************)
(* The two distance functions on their own, on points either side of the   *)
(* latitude where the cosine changes.                                      *)
(***************************************************************************)
GeoPoints ==
    { Pos(lat, lng) : lat \in {CosBandEdge - 300, CosBandEdge - 1, CosBandEdge, CosBandEdge + 300},
                      lng \in {DelhiLng - 1000, DelhiLng, DelhiLng + 1000} }

\* both functions called on (a, b), on (b, a) and on (a, a)
MeasureDistance(a, b) ==
    /\ geo' = [a |-> a, b |-> b,
               app |-> calculateDistance(a.lat, a.lng, b.lat, b.lng),
               appBack |-> calculateDistance(b.lat, b.lng, a.lat, a.lng),
               appSelf |-> calculateDistance(a.lat, a.lng, a.lat, a.lng),
               grid |-> calculateHaversineDistance(a.lat, a.lng, b.lat, b.lng),
               gridBack |-> calculateHaversineDistance(b.lat, b.lng, a.lat, a.lng),
               gridSelf |-> calculateHaversineDistance(a.lat, a.lng, a.lat, a.lng)]
    /\ UNCHANGED <<appVars, gridVars, history, triageVars, props, route, classified,
                   pva, va, clickedId>>

NextGeo == \E a, b \in GeoPoints : MeasureDistance(a, b)

SpecGeo == Init /\ [][NextGeo]_vars

(***************************************************************************)
(* The severity classifier of the backend (caption_to_triage), after its   *)
(* documented rule and its contract: a rule table evaluated top to bottom, *)
(* a default severity, the confidence passed through.                      *)
(***************************************************************************)
CriticalSeverity == 7
DefaultSeverity == 2

\* critical_keywords and the severity of a caption that contains one
RuleTable ==
    << [keywords |-> {"injured", "lying", "fallen", "ground"}, severity |-> CriticalSeverity] >>

\* the words of a caption, and the keywords each contains as a substring
ClassifierWords == {"injured", "grounded", "standing", "person"}
KeywordsInWord(word) == IF word = "grounded" THEN {"ground"} ELSE {word}

\* the captions handed to the classifier: null, or a text of up to
\* MaxCaptionLen words (the empty text included)
ClassifierCaptions ==
    { [null |-> TRUE, words |-> <<>>] } \cup
    { [null |-> FALSE, words |-> w] :
        w \in UNION { [1..n -> ClassifierWords] : n \in 0..MaxCaptionLen } }

Confidences == {0, 50, 85, 100}

\* keyword in caption
KeywordIn(keyword, words) == \E i \in 1..Len(words) : keyword \in KeywordsInWord(words[i])

\* any(keyword in caption for keyword in the group's keywords)
MatchesGroup(group, words) == \E keyword \in group.keywords : KeywordIn(keyword, words)

\* a faulty rule: the severity of the last group where no group matches
caption_to_triage_NoDefault(words) ==
    RuleTable[Len(RuleTable)].severity

\* the first matching group wins; otherwise the default severity
caption_to_triage(words) ==
    LET matching == { i \in 1..Len(RuleTable) : MatchesGroup(RuleTable[i], words) }
    IN IF matching = {} THEN DefaultSeverity
       ELSE RuleTable[CHOOSE i \in matching : \A j \in matching : i <= j].severity

\* classify(caption, confidence): a null caption is an empty caption
classify(caption, confidence) ==
    [severity |-> caption_to_triage(IF caption.null THEN <<>> ELSE caption.words),
     confidence |-> confidence,
     error |-> FALSE]

\* one call of the classifier
Classify(caption, confidence) ==
    /\ classified' = [caption |-> caption, confidence |-> confidence,
                      result |-> classify(caption, confidence)]
    /\ UNCHANGED <<appVars, gridVars, history, triageVars, props, route, geo,
                   pva, va, clickedId>>

NextClassify ==
    \E caption \in ClassifierCaptions, confidence \in Confidences :
        Classify(caption, confidence)

SpecClassify == Init /\ [][NextClassify]_vars

(***************************************************************************)
(* Properties.                                                             *)
(***************************************************************************)
\* distance from the drone to the patient, once there is a patient
Dist == DistanceBetween(droneLocation, patientLocation)

\* the vehicle status App shows: no SOS, flying, or the ETA reads ARRIVED
vehicleStatus ==
    IF ~sosActive THEN "IDLE"
    ELSE IF eta = "ARRIVED" THEN "ARRIVED" ELSE "EN_ROUTE"

\* the ranking the grid computes from App's state for one draw of nearby patients
RankingFor(draw) ==
    LET realPatient == RealPatientProp(patientLocation)
    IN RankPanel(AllPatients(realPatient, generateNearbyPatients(realPatient, draw)),
                 CurrentDrone)

Ids(ranked) == { ranked[k].id : k \in 1..Len(ranked) }

\* C1: while the patient's position stays the same, no step increases the
\* distance from the drone to the patient; eta turns to ARRIVED only in a
\* step that finds the distance below the threshold and leaves the drone
\* where it is, and it does so at most once for a position of the patient.
C1_MonotoneThenArrivedOnce ==
    [][ /\ (patientLocation # Null /\ patientLocation' = patientLocation)
            => DistanceBetween(droneLocation', patientLocation') <= Dist
        /\ (eta # "ARRIVED" /\ eta' = "ARRIVED")
            => (Arrived(Dist) /\ droneLocation' = droneLocation)
        /\ arrivals' <= 1 ]_vars

\* C1 witness: a whole flight to a patient who never moved has ended in ARRIVED
C1_Witness ==
    /\ eta = "ARRIVED"
    /\ arrivals = 1
    /\ watchCount = 0
    /\ legTicks > 100
    /\ Arrived(Dist)

\* C2 as claimed: once eta is ARRIVED no step moves the drone or replaces eta
C2_Original ==
    [][ eta = "ARRIVED" => (eta' = "ARRIVED" /\ droneLocation' = droneLocation) ]_vars

\* C2: while SOS is active, the distance is below the threshold and the
\* patient's position stays the same, no step moves the drone, and eta
\* either stays or becomes ARRIVED and then stays ARRIVED.
C2_FrozenWhileStationary ==
    [][ (sosActive /\ patientLocation' = patientLocation /\ Arrived(Dist))
          => /\ droneLocation' = droneLocation
             /\ eta' \in {eta, "ARRIVED"} ]_vars

\* C2 witness: after the arrival the watch reported the same position, the
\* interval ran once more and found the drone arrived again
C2_Witness ==
    /\ eta = "ARRIVED"
    /\ arrivals = 1
    /\ arrivalRuns = 2
    /\ Arrived(Dist)

\* C3: whenever a movement interval is live, its target is the position of
\* PATIENT_P1, and PATIENT_P1 is first in the ranking for every draw of
\* nearby patients.
C3_TargetIsTopRanked ==
    \A i \in 1..Len(intervals) :
        /\ intervals[i] = patientLocation
        /\ \A draw \in NearbyDraws :
              LET all == AllPatients(RealPatientProp(patientLocation), <<>>)
              IN /\ RankingFor(draw)[1].id = all[1].id
                 /\ all[1].latitude = intervals[i].lat
                 /\ all[1].longitude = intervals[i].lng

\* C3 witness: the drone is mid-flight, the operator's grid is shown
C3_Witness ==
    /\ intervals # <<>>
    /\ GridMounted
    /\ legTicks = 50

CreationIndex(entry) ==
    CHOOSE k \in 1..Len(CurrentPatients) : CurrentPatients[k].id = entry.id

C6_Original ==
    [][ droneLocation' # droneLocation => \E i \in 1..Len(intervals) : TickMove(i) ]_vars

\* C6: droneLocation is written only by the movement step and by the two
\* geolocation callbacks of handleSOS, which place the drone at its start.
C6_PositionWriters ==
    [][ droneLocation' # droneLocation =>
          \/ \E i \in 1..Len(intervals) : TickMove(i)
          \/ \E fix \in GpsFixes : GeoSuccess(fix)
          \/ \E code \in 1..3 : GeoError(code) ]_vars

\* C6 witness: the drone has been placed by handleSOS and then moved by steps,
\* with a telemetry response received
C6_Witness ==
    /\ legTicks > 0
    /\ telemetry # InitialTelemetry
    /\ droneLocation # Pos(DelhiLat, DelhiLng)

\* C7 as claimed: a patient location that is the fallback carries is_fallback
C7_FallbackFlagged ==
    locSource = "FALLBACK" =>
        /\ "is_fallback" \in DOMAIN patientLocation
        /\ patientLocation.is_fallback = TRUE

Changes(from, to) == vehicleStatus = from /\ vehicleStatus' = to

\* C8 as claimed: the status changes only IDLE -> EN_ROUTE -> ARRIVED -> IDLE
C8_Original ==
    [][ vehicleStatus' # vehicleStatus =>
          \/ Changes("IDLE", "EN_ROUTE")
          \/ Changes("EN_ROUTE", "ARRIVED")
          \/ Changes("ARRIVED", "IDLE") ]_vars

\* C8: the status changes only IDLE -> EN_ROUTE, EN_ROUTE -> ARRIVED with the
\* distance below the threshold, and ARRIVED -> EN_ROUTE with the distance not
\* below it (the patient's position has moved away).
C8_StatusTransitions ==
    [][ vehicleStatus' # vehicleStatus =>
          \/ Changes("IDLE", "EN_ROUTE")
          \/ Changes("EN_ROUTE", "ARRIVED") /\ Arrived(Dist)
          \/ Changes("ARRIVED", "EN_ROUTE") /\ ~Arrived(Dist) ]_vars

\* C8 witness: the drone arrived, the patient moved, the drone flies again
C8_Witness ==
    /\ vehicleStatus = "EN_ROUTE"
    /\ served = 1
    /\ watchCount > 0
    /\ legTicks > 0

\* C9: a timer period while no target is assigned (SOS is not active or there
\* is no patient location) changes neither droneLocation nor eta nor the
\* SOS state.
C9_TickWithoutTargetIsNoop ==
    [][ ((~sosActive \/ patientLocation = Null) /\ Tick)
          => UNCHANGED <<droneLocation, eta, sosState, sosActive, patientLocation>> ]_vars

\* C9 witness: a period passed before any SOS, with no patient location
C9_Witness ==
    /\ idleTicks > 0
    /\ ~sosActive
    /\ patientLocation = Null

\* C10: while the grid is shown, both memoized rankings are the rankings of
\* the current drone position and the current case list.
C10_RankingsAreCurrent ==
    GridMounted =>
        /\ rankedPatients = RankPanel(CurrentPatients, CurrentDrone)
        /\ patientRankings = RankMap(CurrentPatients, CurrentDrone)

\* C10 witness: the grid is shown after the drone and the patient have moved
C10_Witness ==
    /\ GridMounted
    /\ Len(rankedPatients) = 4
    /\ droneLocation = Pos(DelhiLat + 490, DelhiLng + 490)
    /\ patientLocation # Pos(DelhiLat, DelhiLng)

\* C12 as claimed: while the drone is en route the ETA shown is the one
\* calculateETA derives from the current distance to the patient
C12_EtaFromDistance ==
    (sosActive /\ eta # "ARRIVED") => eta = calculateETA(Dist)

\* C13: every ranked case carries priority = severity * 1.5 - distance, with
\* its distance the haversine distance from the drone; severity 9 at 2 km
\* scores 11.5 and outranks severity 6 at 0.5 km, which scores 8.5.
C13_PriorityScore ==
    /\ \A k \in 1..Len(rankedPatients) :
          LET entry == rankedPatients[k]
              case == CurrentPatients[CreationIndex(entry)]
          IN /\ entry.distance =
                   calculateHaversineDistance(CurrentDrone.latitude, CurrentDrone.longitude,
                                              case.latitude, case.longitude)
             /\ 2 * entry.priority = 3 * PerKm * case.severity - 2 * entry.distance
    /\ 2 * calculatePriorityScore(9, 2 * PerKm) = 23 * PerKm
    /\ 2 * calculatePriorityScore(6, PerKm \div 2) = 17 * PerKm
    /\ ComesBefore([priority |-> calculatePriorityScore(9, 2 * PerKm)],
                   [priority |-> calculatePriorityScore(6, PerKm \div 2)])

\* C13 witness: a ranking in which a case of higher severity is ranked above
\* a nearer case of lower severity
C13_Witness ==
    \E i, j \in 1..Len(rankedPatients) :
        /\ i < j
        /\ rankedPatients[i].distance > rankedPatients[j].distance
        /\ rankedPatients[i].priority > rankedPatients[j].priority
        /\ CurrentPatients[CreationIndex(rankedPatients[i])].severity
             > CurrentPatients[CreationIndex(rankedPatients[j])].severity

\* C18: a telemetry response (or a failed poll) leaves droneLocation, the
\* movement interval and the ETA as they are.
C18_TelemetryKeepsPosition ==
    [][ ((\E data \in StatusResponses : FetchDroneStatusOk(data)) \/ FetchDroneStatusFailed)
          => UNCHANGED <<droneLocation, intervals, eta>> ]_vars

\* C18 witness: a telemetry response has arrived while the drone is in flight
C18_Witness ==
    /\ sosActive
    /\ intervals # <<>>
    /\ legTicks > 1
    /\ eta # "ARRIVED"
    /\ telemetry \in StatusResponses

\* C14: the time window shown for an analysis is the band of its severity:
\* >= 9 gives 0-5 minutes IMMEDIATE, >= 7 gives 5-15 minutes CRITICAL, >= 4
\* gives 15-30 minutes URGENT, anything lower 30-60 minutes STABLE.
C14_TimeWindowBands ==
    analysisResults # Null =>
        LET sev == analysisResults.severity
            shown == <<timeWindow.timeRange, timeWindow.timeMinutes, timeWindow.urgencyLabel>>
        IN /\ sev \in 9..MaxSeverityScore => shown = <<"0-5 minutes", 5, "IMMEDIATE">>
           /\ sev \in 7..8 => shown = <<"5-15 minutes", 15, "CRITICAL">>
           /\ sev \in 4..6 => shown = <<"15-30 minutes", 30, "URGENT">>
           /\ sev \in 0..3 => shown = <<"30-60 minutes", 60, "STABLE">>

\* C14 witness: an analysis of severity 9 is shown as IMMEDIATE
C14_Witness ==
    /\ analysisResults # Null
    /\ analysisResults.severity = 9
    /\ timeWindow.urgencyLabel = "IMMEDIATE"
    /\ ~isAnalyzing

\* C15: the time range, its minutes and the urgency label shown for an
\* analysis are the ones every other injury text gives at the same severity.
C15_CaptionKeepsTimeRange ==
    analysisResults # Null =>
        \A other \in Captions :
            LET alt == analyzeCriticalTimeWindow(analysisResults.severity, other)
            IN /\ alt.timeRange = timeWindow.timeRange
               /\ alt.timeMinutes = timeWindow.timeMinutes
               /\ alt.urgencyLabel = timeWindow.urgencyLabel

\* C15 witness: an analysis whose text carries a hemorrhage cue and a
\* fracture cue, at a severity that appends both clauses
C15_Witness ==
    /\ analysisResults # Null
    /\ analysisResults.severity = 7
    /\ Len(timeWindow.explanation) = 3
    /\ analysisResults.primary_injury = <<"BLEEDING", "fractured">>

\* a case whose coordinates are no numbers
InvalidCoordinates(patient) == patient.latitude = NaN \/ patient.longitude = NaN

\* C11: a case without valid coordinates is left out of the ranking: it has
\* no rank in patientRankings and no row in the ranking panel
C11_InvalidExcluded ==
    props # Null =>
        \A i \in 1..Len(PropCases) :
            InvalidCoordinates(PropCases[i]) =>
                /\ PropCases[i].id \notin DOMAIN patientRankings
                /\ PropCases[i].id \notin Ids(rankedPatients)

\* C16: every case that has a rank has a severity within 1..10, whatever
\* severity the caller passed with realPatient
C16_SeverityInRange ==
    props # Null =>
        \A i \in 1..Len(PropCases) :
            PropCases[i].id \in DOMAIN patientRankings =>
                PropCases[i].severity \in 1..10

\* C17: with no case to rank (no primary patient and no nearby patient) the
\* ranking is empty: no rank, no row, no selection
C17_EmptyRanking ==
    (props # Null /\ props.realPatient = Null /\ nearbyPatients = <<>>) =>
        /\ patientRankings = <<>>
        /\ rankedPatients = <<>>
        /\ selectedPatientId = NoId

C17_Witness ==
    /\ props # Null
    /\ props.realPatient = Null
    /\ props.drone # Null
    /\ Len(PropCases) = 0
    /\ patientRankings = <<>>

\* C19: up to the exact-solve bound the returned order visits every target
\* once and its length is the least over all visiting orders (the brute-force
\* minimum, for 4 targets too)
C19_ExactIsMinimum ==
    (route # Null /\ Cardinality(route.targets) <= ExactSolveBound) =>
        /\ route.result.ordered_ids \in VisitOrders(route.targets)
        /\ route.result.total_distance_km
               = TourLength(route.vehicle, route.result.ordered_ids)
        /\ route.result.total_distance_km
               = BruteForceMin(route.vehicle, route.targets)

\* four targets, solved exactly, where the greedy order is longer
C19_Witness ==
    /\ route # Null
    /\ Cardinality(route.targets) = 4
    /\ ~route.result.approximate
    /\ route.result.total_distance_km = BruteForceMin(route.vehicle, route.targets)
    /\ GreedyRoute(route.vehicle, route.targets).total_distance_km
           > route.result.total_distance_km

C25_ClickStaysSelected ==
    (GridMounted /\ clickedId # NoId) => selectedPatientId = clickedId

BackendFailures == {"network", "status", "notext"}

\* C23 as stated: after a failed backend call (network error, status not OK,
\* body without text) either assistant shows its fixed fallback reply and is
\* not processing
C23_FailureShowsFallback ==
    /\ pva.outcome \in BackendFailures =>
           /\ pva.messages[Len(pva.messages)] = [type |-> "ai", text |-> PatientFallback]
           /\ ~pva.isProcessing
    /\ va.outcome \in BackendFailures =>
           /\ va.assistantResponse = VoiceFailText
           /\ va.status = "IDLE"

\* C23, amended: PatientVoiceAssistant shows its fallback after each of the
\* three failures; the console's VoiceAssistant shows its fallback after a
\* network error or a status that is not OK, and "Response received" for a
\* body without text; both are not processing afterwards
C23_FallbackPerAssistant ==
    /\ pva.outcome \in BackendFailures =>
           /\ pva.messages[Len(pva.messages)] = [type |-> "ai", text |-> PatientFallback]
           /\ ~pva.isProcessing
    /\ va.outcome \in {"network", "status"} =>
           /\ va.assistantResponse = VoiceFailText
           /\ va.status = "IDLE"
    /\ va.outcome = "notext" =>
           /\ va.assistantResponse = "Response received"
           /\ va.status = "IDLE"

C23_Witness ==
    /\ pva.outcome = "notext"
    /\ pva.messages[Len(pva.messages)].text = PatientFallback
    /\ va.outcome = "notext"
    /\ va.assistantResponse = "Response received"

\* C30: whenever the console's VoiceAssistant is PROCESSING, its status
\* is IDLE again at some later time
C30_ProcessingEnds == (va.status = "PROCESSING") ~> (va.status = "IDLE")

\* C29: isAnalyzing is true exactly while a call of handleTriage is between
\* its guard and its finally block, and there is never more than one
C29_AnalyzingIffInFlight ==
    /\ triageCalls <= 1
    /\ isAnalyzing <=> triageCalls = 1

\* a triage in flight beside an image analysis
C29_Witness ==
    /\ isAnalyzing
    /\ triageCalls = 1
    /\ isAnalyzingImage
    /\ analysisResults = Null

\* C27: at most one movement interval is live, and it is the one created
\* for the current patient location while SOS is active
C27_OneMovementTimer ==
    /\ Len(intervals) <= 1
    /\ intervals # <<>> => (sosActive /\ intervals[1] = patientLocation)

\* the interval live after the effect ran again for a drone step and for a
\* patient update
C27_Witness ==
    /\ Len(intervals) = 1
    /\ legTicks > 0
    /\ watchCount > 0
    /\ locSource = "GPS"

\* the drone is within the arrival threshold and the ETA reads ARRIVED
DroneHasArrived ==
    /\ eta = "ARRIVED"
    /\ patientLocation # Null
    /\ DistanceBetween(droneLocation, patientLocation) * ArrivalDivisor < PerKm

\* C26: whenever SOS is active, at some later time the drone is within the
\* arrival threshold of the patient and the ETA reads ARRIVED
C26_EventuallyArrived ==
    sosActive ~> DroneHasArrived

\* an arrival after a flight of many steps
C26_Witness ==
    /\ sosActive
    /\ DroneHasArrived
    /\ legTicks > 100

\* C28: whenever sosState is REQUESTING, at some later time it is ACTIVE or IDLE
C28_RequestEnds ==
    (sosState = "REQUESTING") ~> (sosState \in {"ACTIVE", "IDLE"})

\* C22: in both distance functions the distance from a point to itself is 0
\* and the distance from a to b equals the distance from b to a
C22_ZeroAndSymmetric ==
    geo # Null =>
        /\ geo.appSelf = 0
        /\ geo.gridSelf = 0
        /\ geo.app = geo.appBack
        /\ geo.grid = geo.gridBack

\* two points with different longitudes, in different cosine bands
C22_Witness ==
    /\ geo # Null
    /\ geo.a.lat < CosBandEdge
    /\ geo.b.lat >= CosBandEdge
    /\ geo.a.lng # geo.b.lng
    /\ geo.app > 0
    /\ geo.grid > 0

====
